---- MODULE Spec2Model ----
(***************************************************************************)
(* Model of the order-api repository.                                      *)
(*                                                                         *)
(*   src/index.js          POST /api/orders/upload (bulk insert with       *)
(*                         ON CONFLICT DO NOTHING, then the global         *)
(*                         is_countable UPDATE, in one transaction)        *)
(*                         GET /api/orders/export-current-fiscal-year      *)
(*                         (the rows of the current fiscal year as CSV)    *)
(*   src/unnamed/part_000  POST /upload-json (DELETE by order_id for a     *)
(*                         non-empty status, then a plain INSERT)          *)
(*                                                                         *)
(* The store is PostgreSQL: a transaction's writes are private until       *)
(* COMMIT, a statement sees the committed table plus the transaction's own *)
(* writes, and a failed statement aborts the transaction.  A handler is    *)
(* modelled statement by statement; every store statement may fail.        *)
(*                                                                         *)
(* An order record keeps the fifteen wire fields.  The four the code       *)
(* inspects (order_id, customer_id, order_status, timestamp) and           *)
(* product_code vary; the other ten are carried with fixed values.         *)
(* Records posted to the endpoints are well-formed (every field present).  *)
(***************************************************************************)
EXTENDS Integers, Sequences, FiniteSets, TLC

\* Bounds of the model.
MaxBatch == 2          \* longest data array a request carries
MaxRows == 3           \* a request is accepted only while the table can stay this small

\* SQL NULL: the value of a column an INSERT does not list (no default declared).
NULL == 0

\* order_status values the code distinguishes.  The source writes the first
\* two in Japanese (kyanseru, henkou); the model uses the spec's English words.
Cancelled == "cancelled"
Changed == "changed"
Plain == ""

\* customer_id is a string, kept as its characters so that LEFT can be computed.
CustA == <<"A", "1">>
CustZ == <<"Z", "1">>

Rec(o, c, s, t, p) ==
    [order_id |-> o, order_date |-> "2024-05-01", sales_dept |-> "D1",
     customer_name |-> "N", customer_id |-> c, product_code |-> p,
     product_name |-> "N", quantity |-> 1, unit_price |-> 100,
     total_price |-> 100, currency |-> "JPY", delivery_date |-> "2024-06-01",
     order_status |-> s, jpy_value |-> 100, timestamp |-> t]

\* The order lines clients submit: order X with an early line, two lines of
\* the latest moment, a change and a cancellation captured at that moment;
\* order Y with a plain line, its cancellation and a reserved-customer line.
Records ==
    { Rec("X", CustA, Plain, 1, "P1"),
      Rec("X", CustA, Plain, 2, "P1"),
      Rec("X", CustA, Plain, 2, "P2"),
      Rec("X", CustA, Changed, 2, "P1"),
      Rec("X", CustA, Cancelled, 2, "P1"),
      Rec("Y", CustA, Plain, 1, "P1"),
      Rec("Y", CustA, Cancelled, 1, "P1"),
      Rec("Y", CustZ, Plain, 1, "P1") }

SeqsUpTo(S, n) == UNION { [1..k -> S] : k \in 0..n }

\* req.body.data: absent, present but no array, or an array of records.
Bodies ==
    { [kind |-> "missing", data |-> <<>>], [kind |-> "notlist", data |-> <<>>] }
    \cup { [kind |-> "list", data |-> d] : d \in SeqsUpTo(Records, MaxBatch) }

VARIABLES
    orders,     \* the committed orders table: a set of rows
    pool,       \* number of pool connections checked out
    pc,         \* per request slot: position in the handler
    ep,         \* per request slot: endpoint being served
    body,       \* per request slot: req.body.data
    idx,        \* per request slot: index of the next element of rows
    held,       \* per request slot: TRUE while it holds a pool client
    txDel,      \* per request slot: committed rows its transaction deleted or rewrote
    txIns,      \* per request slot: rows its transaction wrote (uncommitted)
    resp,       \* per request slot: status codes sent on res, in order
    failed,     \* per request slot: the store operations of the request that failed
    queried,    \* per request slot: TRUE once a statement was sent to the store
    snap,       \* per request slot: the committed table when the request arrived
    resub,      \* per request slot: TRUE when the body repeats the previous, committed upload
    today,      \* the server's clock: calendar year and month
    orders_view,\* the rows of orders_view, in the order the store returns them
    xpc,        \* export request: position in the handler
    fiscalYear, \* export request: the label computed from today
    records,    \* export request: result.rows, then formattedRecords
    xres,       \* export request: the responses sent on res, in order
    xerr        \* export request: what was thrown into the catch block

\* The state of GET /api/orders/export-current-fiscal-year.
xvars == <<today, orders_view, xpc, fiscalYear, records, xres, xerr>>

\* The state of the two upload endpoints.
uvars == <<orders, pool, pc, ep, body, idx, held, txDel, txIns, resp, failed, queried, snap, resub>>

vars == <<uvars, xvars>>

Slots == DOMAIN pc

----------------------------------------------------------------------------
(* The store *)

\* A stored row: the composite tuple, the derived flag, and which physical
\* copy of that tuple it is (1 unless the constraint let a second one in).
Row(t, flag, n) == [tuple |-> t, is_countable |-> flag, copy |-> n]

Tuples(T) == { r.tuple : r \in T }

\* What a statement of slot c's transaction sees: the committed table with
\* the transaction's own writes applied.
View(c) == (orders \ txDel[c]) \cup txIns[c]

\* A slip: the conflict target being the order_id alone.
ConflictsOnOrderId(T, t) == \E r \in T : r.tuple.order_id = t.order_id

\* uq_orders_composite_key: a UNIQUE constraint over the fifteen columns.  As
\* SQL defines it, two rows conflict when all columns are equal and none is NULL.
Conflicts(T, t) == t.timestamp # NULL /\ \E r \in T : r.tuple = t

\* The row an INSERT of t adds to T; is_countable is not in the column list.
NewRow(T, t) == Row(t, "NULL", 1 + Cardinality({ r \in T : r.tuple = t }))

\* A slip: the INSERT without its ON CONFLICT clause taking effect.
InsertQueryNoConflict(T, t) == { NewRow(T, t) }

\* INSERT ... ON CONFLICT ON CONSTRAINT uq_orders_composite_key DO NOTHING
InsertQuery(T, t) == IF Conflicts(T, t) THEN {} ELSE { NewRow(T, t) }

----------------------------------------------------------------------------
(* updateQuery *)

Left(s, n) == SubSeq(s, 1, n)

Partition(T, o) == { r \in T : r.tuple.order_id = o }

\* A slip: the CASE compares with a literal no stored status equals.
has_cancelled_never(T, o) == 0

\* MAX(CASE WHEN order_status = <cancelled> THEN 1 ELSE 0 END) OVER (PARTITION BY order_id)
has_cancelled_in_group(T, o) ==
    IF \E r \in Partition(T, o) : r.tuple.order_status = Cancelled THEN 1 ELSE 0

\* CASE order_status WHEN <cancelled> THEN 1 WHEN <changed> THEN 2 ELSE 3 END
StatusRank(s) == CASE s = Cancelled -> 1 [] s = Changed -> 2 [] OTHER -> 3

\* ORDER BY timestamp DESC, <status rank>: a sorts strictly before b.
\* In a DESC sort PostgreSQL puts NULL first.
SortsBefore(a, b) ==
    LET ta == a.tuple.timestamp
        tb == b.tuple.timestamp
    IN  \/ ta = NULL /\ tb # NULL
        \/ ta # NULL /\ tb # NULL /\ ta > tb
        \/ ta = tb /\ StatusRank(a.tuple.order_status) < StatusRank(b.tuple.order_status)

\* ROW_NUMBER() OVER (PARTITION BY order_id ORDER BY ...): every numbering the
\* sort allows; rows the ORDER BY does not separate are numbered in any order.
rn_latest(T) ==
    { rn \in [T -> 1..Cardinality(T)] :
        \A a \in T :
            /\ rn[a] <= Cardinality(Partition(T, a.tuple.order_id))
            /\ \A b \in Partition(T, a.tuple.order_id) :
                  /\ (a # b => rn[a] # rn[b])
                  /\ (SortsBefore(a, b) => rn[a] < rn[b]) }

\* FROM OrderStatusAnalysis AS OSA WHERE orders.order_id = OSA.order_id AND
\* orders.timestamp = OSA.timestamp: the analysed rows that join with row r.
\* The analysis has one row per row of the table, so it is indexed by them.
JoinRows(T, r) ==
    { q \in T : /\ q.tuple.order_id = r.tuple.order_id
                /\ r.tuple.timestamp # NULL
                /\ q.tuple.timestamp = r.tuple.timestamp }

\* The rows the UPDATE rewrites: those with at least one join partner.
Updated(T) == { r \in T : JoinRows(T, r) # {} }

\* Which analysed row each rewritten row is joined with.  When several
\* analysed rows join with a row, PostgreSQL uses one of them and does not say
\* which: every choice is possible.
JoinChoices(T) ==
    { m \in [Updated(T) -> T] : \A r \in Updated(T) : m[r] \in JoinRows(T, r) }

\* The analysed rows a numbering gives rn_latest = 1, for every numbering.
LatestRows(T) == { { q \in T : rn[q] = 1 } : rn \in rn_latest(T) }

\* A slip: the CASE without its reserved-prefix branch.
CaseIsCountableNoPrefix(T, r, q, latest) ==
    LET hc == has_cancelled_in_group(T, q.tuple.order_id)
    IN  IF hc = 1 THEN "FALSE"
        ELSE IF hc = 0 /\ q \in latest THEN "TRUE"
        ELSE "FALSE"

\* The SET ... CASE, for row r joined with analysed row q, where latest holds
\* the analysed rows with rn_latest = 1.
CaseIsCountable(T, r, q, latest) ==
    LET hc == has_cancelled_in_group(T, q.tuple.order_id)
    IN  IF Left(r.tuple.customer_id, 1) = <<"Z">> THEN "FALSE"
        ELSE IF hc = 1 THEN "FALSE"
        ELSE IF hc = 0 /\ q \in latest THEN "TRUE"
        ELSE "FALSE"

SetFlag(r, v) == [r EXCEPT !.is_countable = v]

\* Every outcome of updateQuery on T: the new versions of the rewritten rows.
updateQuery(T) ==
    { { SetFlag(r, CaseIsCountable(T, r, m[r], latest)) : r \in Updated(T) } :
        latest \in LatestRows(T), m \in JoinChoices(T) }


----------------------------------------------------------------------------
(* POST /api/orders/upload (src/index.js) *)

Put(f, c, v) == [f EXCEPT ![c] = v]

\* !rows || !Array.isArray(rows) || rows.length === 0
Invalid(b) == b.kind = "missing" \/ b.kind # "list" \/ Len(b.data) = 0

\* The model's cap on the table: a data array is taken only when its rows fit.
Fits(b) == Cardinality(orders) + Len(b.data) <= MaxRows

\* A request with body b arrives at slot c; the slot's bookkeeping starts afresh.
Arrive(c, e, b) ==
    /\ ep' = Put(ep, c, e)
    /\ body' = Put(body, c, b)
    /\ idx' = Put(idx, c, 1)
    /\ failed' = Put(failed, c, {})
    /\ queried' = Put(queried, c, FALSE)
    /\ snap' = Put(snap, c, orders)
    /\ UNCHANGED <<xvars, orders, pool, held, txDel, txIns>>

\* Lines 15-18: the body is rejected before anything touches the pool.
Reject(c) ==
    \E b \in Bodies :
        /\ pc[c] = "idle"
        /\ Invalid(b)
        /\ Arrive(c, "upload", b)
        /\ resub' = Put(resub, c, FALSE)
        /\ resp' = Put(resp, c, <<400>>)
        /\ pc' = Put(pc, c, "done")

\* Lines 15-16: a body of B passes the check.
AcceptOf(c, B) ==
    \E b \in B :
        /\ pc[c] = "idle"
        /\ ~Invalid(b)
        /\ Fits(b)
        /\ Arrive(c, "upload", b)
        /\ resub' = Put(resub, c, FALSE)
        /\ resp' = Put(resp, c, <<>>)
        /\ pc' = Put(pc, c, "connect")

Accept(c) == AcceptOf(c, Bodies)

\* Lines 15-16 again: the client posts the body of the upload that has just
\* been answered 200 a second time.
Resubmit(c) ==
    /\ pc[c] = "done"
    /\ ep[c] = "upload"
    /\ resp[c] = <<200>>
    /\ ~resub[c]
    /\ Arrive(c, "upload", body[c])
    /\ resub' = Put(resub, c, TRUE)
    /\ resp' = Put(resp, c, <<>>)
    /\ pc' = Put(pc, c, "connect")

\* Line 111: the handler has returned and the request is over; the slot is
\* free for the next request.
Close(c) ==
    /\ pc[c] = "done"
    /\ pc' = Put(pc, c, "idle")
    /\ body' = Put(body, c, [kind |-> "missing", data |-> <<>>])
    /\ ep' = Put(ep, c, "upload")
    /\ idx' = Put(idx, c, 1)
    /\ resp' = Put(resp, c, <<>>)
    /\ failed' = Put(failed, c, {})
    /\ queried' = Put(queried, c, FALSE)
    /\ snap' = Put(snap, c, {})
    /\ resub' = Put(resub, c, FALSE)
    /\ UNCHANGED <<xvars, orders, pool, held, txDel, txIns>>

\* Line 20: pool.connect() resolves.
Connect(c) ==
    /\ pc[c] = "connect"
    /\ held' = Put(held, c, TRUE)
    /\ pool' = pool + 1
    /\ pc' = Put(pc, c, "begin")
    /\ UNCHANGED <<xvars, orders, ep, body, idx, txDel, txIns, resp, failed, queried, snap, resub>>

\* Line 20: pool.connect() rejects.  The await is outside the try, so the
\* handler's promise rejects and nothing of the handler runs any more.
ConnectFails(c) ==
    /\ pc[c] = "connect"
    /\ failed' = Put(failed, c, {"connect"})
    /\ pc' = Put(pc, c, "done")
    /\ UNCHANGED <<xvars, orders, pool, ep, body, idx, held, txDel, txIns, resp, queried, snap, resub>>

\* Line 23: BEGIN.
Begin(c) ==
    /\ pc[c] = "begin"
    /\ queried' = Put(queried, c, TRUE)
    /\ pc' = Put(pc, c, "insert")
    /\ UNCHANGED <<xvars, orders, pool, ep, body, idx, held, txDel, txIns, resp, failed, snap, resub>>

\* A slip: the conflict test as a read of the committed table, with no wait
\* for a transaction in progress.
WaitsNever(c, t) == FALSE

\* The unique index makes an INSERT wait while another transaction, not yet
\* ended, holds a row version with the same tuple; it goes on when that
\* transaction has committed or rolled back.
Waits(c, t) ==
    /\ t.timestamp # NULL
    /\ \E d \in Slots \ {c} : \E r \in txIns[d] : r.tuple = t

\* The UPDATE waits while another transaction, not yet ended, has rewritten
\* a committed row it is to rewrite.
LockedByOthers(c) == \E d \in Slots \ {c} : txDel[d] \cap Updated(View(c)) # {}

\* Lines 40-48: one turn of the loop, insertQuery with the row's fifteen values.
Insert(c) ==
    /\ pc[c] = "insert"
    /\ ~Waits(c, body[c].data[idx[c]])
    /\ LET row == body[c].data[idx[c]]
       IN  txIns' = Put(txIns, c, txIns[c] \cup InsertQuery(View(c), row))
    /\ queried' = Put(queried, c, TRUE)
    /\ idx' = Put(idx, c, idx[c] + 1)
    /\ pc' = Put(pc, c, IF idx[c] = Len(body[c].data) THEN "update" ELSE "insert")
    /\ UNCHANGED <<xvars, orders, pool, ep, body, held, txDel, resp, failed, snap, resub>>

\* A slip: updateQuery sent through the pool, outside the transaction, so
\* that it sees the committed table only.
UpdateOutsideTransaction(c) ==
    /\ pc[c] = "update"
    /\ \E new \in updateQuery(orders) :
          /\ txDel' = Put(txDel, c, txDel[c] \cup Updated(orders))
          /\ txIns' = Put(txIns, c, (txIns[c] \ Updated(orders)) \cup new)
    /\ queried' = Put(queried, c, TRUE)
    /\ pc' = Put(pc, c, "commit")
    /\ UNCHANGED <<xvars, orders, pool, ep, body, idx, held, resp, failed, snap, resub>>

\* A slip: the reclassification applied to the rows the request stored only.
UpdateOwnRowsOnly(c) ==
    /\ pc[c] = "update"
    /\ \E new \in updateQuery(View(c)) :
          txIns' = Put(txIns, c, { r \in new : \E q \in txIns[c] : q.tuple = r.tuple /\ q.copy = r.copy })
    /\ queried' = Put(queried, c, TRUE)
    /\ pc' = Put(pc, c, "commit")
    /\ UNCHANGED <<xvars, orders, pool, ep, body, idx, held, txDel, resp, failed, snap, resub>>

\* Line 96: updateQuery, over the table as the transaction sees it.
Update(c) ==
    /\ pc[c] = "update"
    /\ ~LockedByOthers(c)
    /\ \E new \in updateQuery(View(c)) :
          /\ txDel' = Put(txDel, c, txDel[c] \cup (orders \cap Updated(View(c))))
          /\ txIns' = Put(txIns, c, (txIns[c] \ Updated(View(c))) \cup new)
    /\ queried' = Put(queried, c, TRUE)
    /\ pc' = Put(pc, c, "commit")
    /\ UNCHANGED <<xvars, orders, pool, ep, body, idx, held, resp, failed, snap, resub>>

\* The committed table after slot c's transaction commits.
Committed(c) == View(c)

\* A slip: the catch block leaving the transaction's writes in place.
RolledBackKeepsWrites(c) == View(c)

\* The committed table after slot c's transaction is rolled back.
RolledBack(c) == orders

\* Line 100: COMMIT.
Commit(c) ==
    /\ pc[c] = "commit"
    /\ orders' = Committed(c)
    /\ txDel' = Put(txDel, c, {})
    /\ txIns' = Put(txIns, c, {})
    /\ queried' = Put(queried, c, TRUE)
    /\ pc' = Put(pc, c, "send200")
    /\ UNCHANGED <<xvars, pool, ep, body, idx, held, resp, failed, snap, resub>>

\* Line 101: res.status(200).send(...)
Send200(c) ==
    /\ pc[c] = "send200"
    /\ resp' = Put(resp, c, Append(resp[c], 200))
    /\ pc' = Put(pc, c, "finally")
    /\ UNCHANGED <<xvars, orders, pool, ep, body, idx, held, txDel, txIns, failed, queried, snap, resub>>

\* Lines 23, 47, 96, 100: a client.query of the try block rejects; control
\* goes to the catch block and the loop's position is out of scope.
QueryFails(c) ==
    /\ pc[c] \in {"begin", "insert", "update", "commit"}
    /\ failed' = Put(failed, c, {pc[c]})
    /\ queried' = Put(queried, c, TRUE)
    /\ idx' = Put(idx, c, 1)
    /\ pc' = Put(pc, c, "catch")
    /\ UNCHANGED <<xvars, orders, pool, ep, body, held, txDel, txIns, resp, snap, resub>>

\* Line 104: ROLLBACK.
Rollback(c) ==
    /\ pc[c] = "catch"
    /\ orders' = RolledBack(c)
    /\ txDel' = Put(txDel, c, {})
    /\ txIns' = Put(txIns, c, {})
    /\ queried' = Put(queried, c, TRUE)
    /\ pc' = Put(pc, c, "send500")
    /\ UNCHANGED <<xvars, pool, ep, body, idx, held, resp, failed, snap, resub>>

\* Line 104: ROLLBACK rejects.  The exception leaves the catch block, so only
\* the finally block still runs.  The store ends the transaction without
\* committing it once the session is gone.
RollbackFails(c) ==
    /\ pc[c] = "catch"
    /\ orders' = RolledBack(c)
    /\ txDel' = Put(txDel, c, {})
    /\ txIns' = Put(txIns, c, {})
    /\ failed' = Put(failed, c, failed[c] \cup {"rollback"})
    /\ queried' = Put(queried, c, TRUE)
    /\ pc' = Put(pc, c, "finally")
    /\ UNCHANGED <<xvars, pool, ep, body, idx, held, resp, snap, resub>>

\* Line 107: res.status(500).send(...)
Send500(c) ==
    /\ pc[c] = "send500"
    /\ resp' = Put(resp, c, Append(resp[c], 500))
    /\ pc' = Put(pc, c, "finally")
    /\ UNCHANGED <<xvars, orders, pool, ep, body, idx, held, txDel, txIns, failed, queried, snap, resub>>

\* A slip: the handler ending without giving the client back.
ReleaseForgotten(c) ==
    /\ pc[c] = "finally"
    /\ pc' = Put(pc, c, "done")
    /\ UNCHANGED <<xvars, orders, pool, ep, body, idx, held, txDel, txIns, resp, failed, queried, snap, resub>>

\* Line 109: client.release()
Release(c) ==
    /\ pc[c] = "finally"
    /\ held' = Put(held, c, FALSE)
    /\ pool' = pool - 1
    /\ pc' = Put(pc, c, "done")
    /\ UNCHANGED <<xvars, orders, ep, body, idx, txDel, txIns, resp, failed, queried, snap, resub>>

\* Lines 40-48 as a function: the table after the loop has run over rows.
RECURSIVE InsertAll(_, _)
InsertAll(T, rows) ==
    IF rows = <<>> THEN T
    ELSE InsertAll(T \cup InsertQuery(T, Head(rows)), Tail(rows))

\* Lines 23-100 as a function: every table a request with these rows can
\* commit onto table T when no statement fails.
UploadOutcomes(T, rows) ==
    LET V == InsertAll(T, rows)
    IN  { (V \ Updated(V)) \cup new : new \in updateQuery(V) }

----------------------------------------------------------------------------
(* GET /api/orders/export-current-fiscal-year (index.js lines 126-242) *)

MaxView == 2           \* most rows orders_view holds

\* new Date(): the calendar year and month of the clock (1 = January).
Days == [year : {2024, 2025}, month : 1..12]

getFullYear(d) == d.year
getMonth(d) == d.month - 1

\* The template `${y}` followed by the two characters for "fiscal year".
Label(y) == <<y, "nendo">>

\* A slip: the 0-indexed month compared with 4.
FiscalYearZeroIndexed(d) ==
    LET currentYear == getFullYear(d)
        currentMonth == getMonth(d)
    IN  IF currentMonth >= 4 THEN Label(currentYear) ELSE Label(currentYear - 1)

\* Lines 128-140.
FiscalYear(d) ==
    LET currentYear == getFullYear(d)
        currentMonth == getMonth(d) + 1
    IN  IF currentMonth >= 4 THEN Label(currentYear) ELSE Label(currentYear - 1)

\* The values record.timestamp can have in result.rows: null, undefined (the
\* view has no such column), a Date holding an instant (year, month, day,
\* hours, minutes, seconds), a Date holding NaN, or a value that is no Date.
TsNull == [kind |-> "null", time |-> <<>>]
TsUndefined == [kind |-> "undefined", time |-> <<>>]
TsDate(t) == [kind |-> "Date", time |-> t]
TsNaNDate == [kind |-> "Date", time |-> <<>>]
TsOther == [kind |-> "other", time |-> <<>>]

Timestamps == { TsNull, TsUndefined, TsDate(<<2024, 5, 1, 9, 5, 3>>), TsNaNDate, TsOther }

\* A row of the view: the column the query filters on and the timestamp.
ViewRows == [fiscal_year : {Label(2023), Label(2024)}, timestamp : Timestamps]

\* The tables the view can show.  A column is in every row or in none.
Views ==
    { v \in SeqsUpTo(ViewRows, MaxView) :
        \A i, j \in 1..Len(v) :
            (v[i].timestamp = TsUndefined) <=> (v[j].timestamp = TsUndefined) }

\* Lines 144-149: SELECT * FROM orders_view WHERE fiscal_year = $1.
SelectFiscalYear(v, fy) == SelectSeq(v, LAMBDA r : r.fiscal_year = fy)

\* A text cell of the CSV: a literal, or the digits put into a pattern.
Text(s) == [text |-> s, digits |-> <<>>]

\* n.toString().padStart(2, '0') for 0 <= n <= 99.
padStart2(n) == <<n \div 10, n % 10>>

\* Lines 184-195: the parts taken from the Date and the template
\* `${year}${month}${day}${hours}:${minutes}:${seconds}`.
FormatDate(t) ==
    [text |-> "YYYYMMDDHH:MM:SS",
     digits |-> <<t[1]>> \o padStart2(t[2]) \o padStart2(t[3])
                \o padStart2(t[4]) \o padStart2(t[5]) \o padStart2(t[6])]

\* Lines 171-181: the timestamp is truthy and a Date, and line 181 calls
\* getSeconds() on the number date.getSeconds() returned: a TypeError.
FormatThrows(r) == r.timestamp.kind = "Date"

\* Lines 199-210: the two other branches.
FormatRecord(r) ==
    [r EXCEPT !.timestamp =
        IF r.timestamp.kind \notin {"null", "undefined"}
        THEN Text("Invalid Date")
        ELSE Text("")]

Response(status, type, rows) == [status |-> status, type |-> type, body |-> rows]

\* Lines 127-149: the label is computed and the query sent.
XArrive ==
    /\ xpc = "idle"
    /\ fiscalYear' = FiscalYear(today)
    /\ xpc' = "query"
    /\ UNCHANGED <<uvars, today, orders_view, records, xres, xerr>>

\* A slip: no test for an empty result, so that Object.keys(records[0]) at
\* line 219 throws and the catch block answers.
XNotFoundUnchecked ==
    /\ xpc = "query"
    /\ SelectFiscalYear(orders_view, fiscalYear) = <<>>
    /\ records' = <<>>
    /\ xerr' = "TypeError"
    /\ xres' = Append(xres, Response(500, "text/html", <<>>))
    /\ xpc' = "done"
    /\ UNCHANGED <<uvars, today, orders_view, fiscalYear>>

\* Lines 149-155: the query returns no row.
XNotFound ==
    /\ xpc = "query"
    /\ SelectFiscalYear(orders_view, fiscalYear) = <<>>
    /\ records' = <<>>
    /\ xres' = Append(xres, Response(404, "text/html", <<>>))
    /\ xpc' = "done"
    /\ UNCHANGED <<uvars, today, orders_view, fiscalYear, xerr>>

\* Lines 149-181, 238-241: the query returns rows and records.map throws on
\* the first row whose timestamp is a Date.
XFormatThrows ==
    /\ xpc = "query"
    /\ LET rows == SelectFiscalYear(orders_view, fiscalYear)
       IN  /\ rows # <<>>
           /\ \E i \in 1..Len(rows) : FormatThrows(rows[i])
           /\ records' = rows
    /\ xerr' = "TypeError"
    /\ xres' = Append(xres, Response(500, "text/html", <<>>))
    /\ xpc' = "done"
    /\ UNCHANGED <<uvars, today, orders_view, fiscalYear>>

\* Lines 149-222: the query returns rows, none with a Date, and they are
\* formatted and handed to stringify.
XFormat ==
    /\ xpc = "query"
    /\ LET rows == SelectFiscalYear(orders_view, fiscalYear)
       IN  /\ rows # <<>>
           /\ \A i \in 1..Len(rows) : ~FormatThrows(rows[i])
           /\ records' = [i \in 1..Len(rows) |-> FormatRecord(rows[i])]
    /\ xpc' = "stringify"
    /\ UNCHANGED <<uvars, today, orders_view, fiscalYear, xres, xerr>>

\* Lines 149, 238-241: pool.query rejects.
XQueryFails ==
    /\ xpc = "query"
    /\ xerr' = "query"
    /\ xres' = Append(xres, Response(500, "text/html", <<>>))
    /\ xpc' = "done"
    /\ UNCHANGED <<uvars, today, orders_view, fiscalYear, records>>

\* Lines 222-235: stringify calls back with the CSV: a header line and one
\* line for each record.
XSend200 ==
    /\ xpc = "stringify"
    /\ xres' = Append(xres, Response(200, "text/csv", records))
    /\ xpc' = "done"
    /\ UNCHANGED <<uvars, today, orders_view, fiscalYear, records, xerr>>

\* Lines 223-227, 238-241: stringify calls back with an error.
XStringifyFails ==
    /\ xpc = "stringify"
    /\ xerr' = "stringify"
    /\ xres' = Append(xres, Response(500, "text/html", <<>>))
    /\ xpc' = "done"
    /\ UNCHANGED <<uvars, today, orders_view, fiscalYear, records>>

\* The export endpoint before a request: the clock and the view are given.
XInit(days, views) ==
    /\ today \in days
    /\ orders_view \in views
    /\ xpc = "idle"
    /\ fiscalYear = <<>>
    /\ records = <<>>
    /\ xres = <<>>
    /\ xerr = "none"

----------------------------------------------------------------------------
(* Specification: requests to /api/orders/upload, one at a time *)

Serial == {1}

\* The upload endpoints before any request, with request slots S.
InitUpload(S) ==
    /\ orders = {}
    /\ pool = 0
    /\ pc = [c \in S |-> "idle"]
    /\ ep = [c \in S |-> "upload"]
    /\ body = [c \in S |-> [kind |-> "missing", data |-> <<>>]]
    /\ idx = [c \in S |-> 1]
    /\ held = [c \in S |-> FALSE]
    /\ txDel = [c \in S |-> {}]
    /\ txIns = [c \in S |-> {}]
    /\ resp = [c \in S |-> <<>>]
    /\ failed = [c \in S |-> {}]
    /\ queried = [c \in S |-> FALSE]
    /\ snap = [c \in S |-> {}]
    /\ resub = [c \in S |-> FALSE]

Init ==
    /\ InitUpload(Serial)
    /\ XInit({[year |-> 2024, month |-> 4]}, {<<>>})

Next ==
    \/ \E c \in Slots : Reject(c)
    \/ \E c \in Slots : Accept(c)
    \/ \E c \in Slots : Resubmit(c)
    \/ \E c \in Slots : Close(c)
    \/ \E c \in Slots : Connect(c)
    \/ \E c \in Slots : ConnectFails(c)
    \/ \E c \in Slots : Begin(c)
    \/ \E c \in Slots : Insert(c)
    \/ \E c \in Slots : Update(c)
    \/ \E c \in Slots : Commit(c)
    \/ \E c \in Slots : Send200(c)
    \/ \E c \in Slots : QueryFails(c)
    \/ \E c \in Slots : Rollback(c)
    \/ \E c \in Slots : RollbackFails(c)
    \/ \E c \in Slots : Send500(c)
    \/ \E c \in Slots : Release(c)

Spec == Init /\ [][Next]_vars

----------------------------------------------------------------------------
(* POST /upload-json (src/unnamed/part_000) *)

\* order_status && order_status.trim() !== "".  No status of Records is made
\* of blanks only, so the test is whether the status is the empty string.
NonBlank(s) == s # Plain

\* The fourteen values of the INSERT: the column list has no timestamp, so
\* the stored row's timestamp is NULL.
LegacyValues(row) == [row EXCEPT !.timestamp = NULL]

\* Lines 17-18: the body is taken as it is; nothing is checked.
LArrive(c) ==
    \E b \in Bodies :
        /\ pc[c] = "idle"
        /\ Fits(b)
        /\ Arrive(c, "legacy", b)
        /\ resub' = Put(resub, c, FALSE)
        /\ resp' = Put(resp, c, <<>>)
        /\ pc' = Put(pc, c, "lconnect")

\* Line 19: pool.connect() resolves.
LConnect(c) ==
    /\ pc[c] = "lconnect"
    /\ held' = Put(held, c, TRUE)
    /\ pool' = pool + 1
    /\ pc' = Put(pc, c, "lbegin")
    /\ UNCHANGED <<xvars, orders, ep, body, idx, txDel, txIns, resp, failed, queried, snap, resub>>

\* Line 19: pool.connect() rejects, outside the try.
LConnectFails(c) ==
    /\ pc[c] = "lconnect"
    /\ failed' = Put(failed, c, {"connect"})
    /\ pc' = Put(pc, c, "done")
    /\ UNCHANGED <<xvars, orders, pool, ep, body, idx, held, txDel, txIns, resp, queried, snap, resub>>

\* Lines 22-24: BEGIN, then the for...of over rows starts.  Rows that are
\* absent or not iterable make it throw inside the try; an empty array skips
\* the loop.
LBegin(c) ==
    /\ pc[c] = "lbegin"
    /\ queried' = Put(queried, c, TRUE)
    /\ pc' = Put(pc, c, IF body[c].kind # "list" THEN "lcatch"
                        ELSE IF Len(body[c].data) = 0 THEN "lcommit"
                        ELSE "lrow")
    /\ UNCHANGED <<xvars, orders, pool, ep, body, idx, held, txDel, txIns, resp, failed, snap, resub>>

\* Lines 33-35: DELETE FROM orders WHERE order_id = $1, for a non-blank status.
LDelete(c) ==
    /\ pc[c] = "lrow"
    /\ LET row == body[c].data[idx[c]]
       IN  /\ NonBlank(row.order_status)
           /\ txDel' = Put(txDel, c, txDel[c] \cup Partition(orders, row.order_id))
           /\ txIns' = Put(txIns, c, txIns[c] \ Partition(txIns[c], row.order_id))
    /\ pc' = Put(pc, c, "linsert")
    /\ UNCHANGED <<xvars, orders, pool, ep, body, idx, held, resp, failed, queried, snap, resub>>

\* Lines 38-48: the plain INSERT.  It has no ON CONFLICT clause: a conflict
\* with the constraint would make the statement fail.
LInsert(c) ==
    /\ \/ pc[c] = "linsert"
       \/ pc[c] = "lrow" /\ ~NonBlank(body[c].data[idx[c]].order_status)
    /\ LET t == LegacyValues(body[c].data[idx[c]])
       IN  /\ ~Conflicts(View(c), t)
           /\ txIns' = Put(txIns, c, txIns[c] \cup { NewRow(View(c), t) })
    /\ idx' = Put(idx, c, idx[c] + 1)
    /\ pc' = Put(pc, c, IF idx[c] = Len(body[c].data) THEN "lcommit" ELSE "lrow")
    /\ UNCHANGED <<xvars, orders, pool, ep, body, held, txDel, resp, failed, queried, snap, resub>>

\* Line 51: COMMIT.
LCommit(c) ==
    /\ pc[c] = "lcommit"
    /\ orders' = Committed(c)
    /\ txDel' = Put(txDel, c, {})
    /\ txIns' = Put(txIns, c, {})
    /\ pc' = Put(pc, c, "lsend200")
    /\ UNCHANGED <<xvars, pool, ep, body, idx, held, resp, failed, queried, snap, resub>>

\* Line 52: res.status(200).send(...)
LSend200(c) ==
    /\ pc[c] = "lsend200"
    /\ resp' = Put(resp, c, Append(resp[c], 200))
    /\ pc' = Put(pc, c, "lfinally")
    /\ UNCHANGED <<xvars, orders, pool, ep, body, idx, held, txDel, txIns, failed, queried, snap, resub>>

\* Lines 22, 34, 38, 51: a client.query of the try block rejects.
LQueryFails(c) ==
    /\ pc[c] \in {"lbegin", "lrow", "linsert", "lcommit"}
    /\ failed' = Put(failed, c, {pc[c]})
    /\ queried' = Put(queried, c, TRUE)
    /\ idx' = Put(idx, c, 1)
    /\ pc' = Put(pc, c, "lcatch")
    /\ UNCHANGED <<xvars, orders, pool, ep, body, held, txDel, txIns, resp, snap, resub>>

\* Line 54: ROLLBACK.
LRollback(c) ==
    /\ pc[c] = "lcatch"
    /\ orders' = RolledBack(c)
    /\ txDel' = Put(txDel, c, {})
    /\ txIns' = Put(txIns, c, {})
    /\ idx' = Put(idx, c, 1)
    /\ pc' = Put(pc, c, "lsend500")
    /\ UNCHANGED <<xvars, pool, ep, body, held, resp, failed, queried, snap, resub>>

\* Line 54: ROLLBACK rejects; only the finally block still runs.
LRollbackFails(c) ==
    /\ pc[c] = "lcatch"
    /\ orders' = RolledBack(c)
    /\ txDel' = Put(txDel, c, {})
    /\ txIns' = Put(txIns, c, {})
    /\ failed' = Put(failed, c, failed[c] \cup {"rollback"})
    /\ idx' = Put(idx, c, 1)
    /\ pc' = Put(pc, c, "lfinally")
    /\ UNCHANGED <<xvars, pool, ep, body, held, resp, queried, snap, resub>>

\* Line 56: res.status(500).send(...)
LSend500(c) ==
    /\ pc[c] = "lsend500"
    /\ resp' = Put(resp, c, Append(resp[c], 500))
    /\ pc' = Put(pc, c, "lfinally")
    /\ UNCHANGED <<xvars, orders, pool, ep, body, idx, held, txDel, txIns, failed, queried, snap, resub>>

\* Line 58: client.release()
LRelease(c) ==
    /\ pc[c] = "lfinally"
    /\ held' = Put(held, c, FALSE)
    /\ pool' = pool - 1
    /\ pc' = Put(pc, c, "done")
    /\ UNCHANGED <<xvars, orders, ep, body, idx, txDel, txIns, resp, failed, queried, snap, resub>>

LNext ==
    \/ \E c \in Slots : LArrive(c)
    \/ \E c \in Slots : LConnect(c)
    \/ \E c \in Slots : LConnectFails(c)
    \/ \E c \in Slots : LBegin(c)
    \/ \E c \in Slots : LDelete(c)
    \/ \E c \in Slots : LInsert(c)
    \/ \E c \in Slots : LCommit(c)
    \/ \E c \in Slots : LSend200(c)
    \/ \E c \in Slots : LQueryFails(c)
    \/ \E c \in Slots : LRollback(c)
    \/ \E c \in Slots : LRollbackFails(c)
    \/ \E c \in Slots : LSend500(c)
    \/ \E c \in Slots : LRelease(c)

\* Both endpoints on the same store, one request at a time.
NextAll == Next \/ LNext

SpecAll == Init /\ [][NextAll]_vars

----------------------------------------------------------------------------
(* Specification: two uploads to /api/orders/upload at the same time *)

\* The store runs each transaction at its default isolation level, READ
\* COMMITTED: a statement sees what was committed when it starts and the
\* transaction's own writes.

Pair == {1, 2}

\* The lines the two clients submit: a plain line of order X and the
\* cancellation of that order captured later.
ConcRecords == { Rec("X", CustA, Plain, 1, "P1"), Rec("X", CustA, Cancelled, 2, "P1") }

ConcBodies == { [kind |-> "list", data |-> d] : d \in SeqsUpTo(ConcRecords, MaxBatch) \ {<<>>} }

AcceptConc(c) == AcceptOf(c, ConcBodies)

InitConc ==
    /\ InitUpload(Pair)
    /\ XInit({[year |-> 2024, month |-> 4]}, {<<>>})

NextConc ==
    \/ \E c \in Slots : AcceptConc(c)
    \/ \E c \in Slots : Connect(c)
    \/ \E c \in Slots : ConnectFails(c)
    \/ \E c \in Slots : Begin(c)
    \/ \E c \in Slots : Insert(c)
    \/ \E c \in Slots : Update(c)
    \/ \E c \in Slots : Commit(c)
    \/ \E c \in Slots : Send200(c)
    \/ \E c \in Slots : QueryFails(c)
    \/ \E c \in Slots : Rollback(c)
    \/ \E c \in Slots : RollbackFails(c)
    \/ \E c \in Slots : Send500(c)
    \/ \E c \in Slots : Release(c)

SpecConc == InitConc /\ [][NextConc]_vars

----------------------------------------------------------------------------
(* Specification: one request to the export endpoint *)

InitExport ==
    /\ InitUpload(Serial)
    /\ XInit(Days, Views)

NextExport ==
    \/ XArrive
    \/ XNotFound
    \/ XFormatThrows
    \/ XFormat
    \/ XQueryFails
    \/ XSend200
    \/ XStringifyFails

SpecExport == InitExport /\ [][NextExport]_vars

----------------------------------------------------------------------------
(* Properties *)

Done(c) == pc[c] = "done"
Uploaded(c) == Done(c) /\ ep[c] = "upload" /\ resp[c] = <<200>>
Group(o) == { r \in orders : r.tuple.order_id = o }
HasCancelled(o) == \E r \in Group(o) : r.tuple.order_status = Cancelled
Reserved(r) == Head(r.tuple.customer_id) = "Z"
RowIds(T) == { [tuple |-> r.tuple, copy |-> r.copy] : r \in T }
BodyTuples(c) == { body[c].data[k] : k \in 1..Len(body[c].data) }

\* C1: when BEGIN, an INSERT, the UPDATE or COMMIT of an upload failed, then
\* once the handler has finished the committed table is what it was when the
\* request arrived: no row of the batch, no flag changed.
C1_Atomicity ==
    \A c \in Slots :
        (/\ Done(c) /\ ep[c] = "upload"
         /\ failed[c] \cap {"begin", "insert", "update", "commit"} # {})
        => orders = snap[c]

\* An upload onto a non-empty table, whose batch held a record not yet
\* stored, failed at COMMIT (after its inserts and its UPDATE) and was
\* answered 500.
C1_Witness ==
    \E c \in Slots :
        /\ Done(c) /\ ep[c] = "upload"
        /\ "commit" \in failed[c]
        /\ resp[c] = <<500>>
        /\ snap[c] # {}
        /\ \E t \in BodyTuples(c) : t \notin Tuples(snap[c])

\* C2: no two stored rows have the same composite tuple.
C2_UniqueTuples == \A r, q \in orders : r.tuple = q.tuple => r = q

\* C3: uploading a batch a second time, right after its upload was answered
\* 200, stores no further row: the stored rows are those stored after the
\* first upload.
C3_Idempotent ==
    \A c \in Slots :
        (Uploaded(c) /\ resub[c]) => RowIds(orders) = RowIds(snap[c])

\* A batch of two different records has been uploaded twice, both answered 200.
C3_Witness ==
    \E c \in Slots :
        /\ Uploaded(c) /\ resub[c]
        /\ Cardinality(BodyTuples(c)) >= 2

\* C4: in every order_id group with no cancelled row and no reserved
\* customer, exactly one row is countable, it has the greatest timestamp of
\* the group, and every other row of the group is not countable.
C4_ExactlyOneLatest ==
    \A o \in { r.tuple.order_id : r \in orders } :
        (~HasCancelled(o) /\ \A r \in Group(o) : ~Reserved(r))
        => \E r \in Group(o) :
              /\ r.is_countable = "TRUE"
              /\ \A q \in Group(o) : q.tuple.timestamp <= r.tuple.timestamp
              /\ \A q \in Group(o) \ {r} : q.is_countable = "FALSE"

\* C5: every row of an order_id group that holds a cancelled row is not
\* countable.
C5_CancelledGroupNotCountable ==
    \A r \in orders : HasCancelled(r.tuple.order_id) => r.is_countable = "FALSE"

\* After a successful upload a group holds a cancelled row, a plain row of
\* the same timestamp and a row of an earlier timestamp.
C5_Witness ==
    \E c \in Slots :
        /\ Uploaded(c)
        /\ \E x, p, e \in orders :
              /\ x.tuple.order_status = Cancelled
              /\ p.tuple.order_id = x.tuple.order_id
              /\ p.tuple.order_status = Plain
              /\ p.tuple.timestamp = x.tuple.timestamp
              /\ e.tuple.order_id = x.tuple.order_id
              /\ e.tuple.timestamp < x.tuple.timestamp

\* C6: in a group without cancellation, a changed row and a plain row that
\* share the greatest timestamp of the group: the changed row is countable and
\* the plain row is not.
C6_ChangedWinsTie ==
    \A x, p \in orders :
        (/\ x.tuple.order_id = p.tuple.order_id
         /\ x.tuple.timestamp = p.tuple.timestamp
         /\ x.tuple.order_status = Changed
         /\ p.tuple.order_status \notin {Changed, Cancelled}
         /\ ~Reserved(x)
         /\ ~HasCancelled(x.tuple.order_id)
         /\ \A q \in Group(x.tuple.order_id) : q.tuple.timestamp <= x.tuple.timestamp)
        => (x.is_countable = "TRUE" /\ p.is_countable = "FALSE")

\* C7: every row whose customer_id starts with Z is not countable.
C7_ReservedNotCountable ==
    \A r \in orders : Reserved(r) => r.is_countable = "FALSE"

\* After a successful upload a reserved-customer row is the only row of its
\* order_id, so it is the latest and its group has no cancellation.
C7_Witness ==
    \E c \in Slots :
        /\ Uploaded(c)
        /\ \E r \in orders : Reserved(r) /\ Group(r.tuple.order_id) = {r}

\* C8: no step removes a stored row: every row of the table is still a row
\* of the table after the step.
C8_NeverDeleted ==
    [][\A r \in orders :
          \E q \in orders' : q.tuple = r.tuple /\ q.copy = r.copy]_vars

\* C9: a request whose data is missing, not a list or an empty list holds no
\* pool client, sends no statement, and is answered 400.
C9_InvalidNoStore ==
    \A c \in Slots :
        (pc[c] # "idle" /\ Invalid(body[c]))
        => /\ ~held[c]
           /\ ~queried[c]
           /\ Done(c) => resp[c] = <<400>>

\* C10: a finished upload that passed validation has been answered exactly
\* once: 200 when no store operation failed, 500 when one did.
C10_OneResponse ==
    \A c \in Slots :
        (Done(c) /\ ep[c] = "upload" /\ ~Invalid(body[c]))
        => /\ failed[c] = {} => resp[c] = <<200>>
           /\ failed[c] # {} => resp[c] = <<500>>

\* C11: the pool has exactly the clients checked out that running requests
\* hold, a request that is over holds none, and with no request running no
\* client is checked out.
C11_ClientsReleased ==
    /\ pool = Cardinality({ c \in Slots : held[c] })
    /\ \A c \in Slots : pc[c] \in {"idle", "done"} => ~held[c]
    /\ (\A c \in Slots : pc[c] \in {"idle", "done"}) => pool = 0

\* A request took a client, a statement failed, the ROLLBACK failed too, and
\* the request is over.
C11_Witness ==
    \E c \in Slots :
        /\ Done(c)
        /\ queried[c]
        /\ "rollback" \in failed[c]
        /\ Cardinality(failed[c]) = 2

\* C12: an upload during which no store operation failed is answered 200,
\* and the table then holds the rows it held before plus one row for every
\* record of the batch that was not stored: a stored record is skipped, not
\* an error, and gets no second copy.
C12_StoredSkippedNewInserted ==
    \A c \in Slots :
        (Done(c) /\ ep[c] = "upload" /\ ~Invalid(body[c]) /\ failed[c] = {})
        => /\ resp[c] = <<200>>
           /\ RowIds(orders) =
                RowIds(snap[c]) \cup { [tuple |-> t, copy |-> 1] : t \in BodyTuples(c) }

\* A batch of one stored record and one new record of the same order_id has
\* been uploaded.
C12_Witness ==
    \E c \in Slots :
        /\ Uploaded(c)
        /\ \E t, u \in BodyTuples(c) :
              /\ t \in Tuples(snap[c])
              /\ u \notin Tuples(snap[c])
              /\ u.order_id = t.order_id

\* The sets of rows a numbering can give rn_latest = 1: one row of each
\* order_id, which no row of that order_id sorts before.
Firsts(T) ==
    { L \in SUBSET T :
        /\ \A a \in T : Cardinality(L \cap Partition(T, a.tuple.order_id)) = 1
        /\ \A q \in L : \A b \in Partition(T, q.tuple.order_id) : ~SortsBefore(b, q) }

\* C18: once 200 has been sent, no store operation of the request failed,
\* every record of the batch is stored, every stored row has been given a
\* flag, and the flags are an outcome of updateQuery on the whole table, the
\* batch's rows included.
C18_OkMeansCommittedWhole ==
    \A c \in Slots :
        (ep[c] = "upload" /\ \E k \in 1..Len(resp[c]) : resp[c][k] = 200)
        => /\ failed[c] = {}
           /\ pc[c] \in {"finally", "done"}
           /\ BodyTuples(c) \subseteq Tuples(orders)
           /\ \A r \in orders : r.is_countable # "NULL"
           /\ \E latest \in Firsts(orders) :
                 \A r \in Updated(orders) :
                     \E q \in JoinRows(orders, r) :
                         r.is_countable = CaseIsCountable(orders, r, q, latest)

\* 200 has been sent for a batch of two new records, onto a non-empty table.
C18_Witness ==
    \E c \in Slots :
        /\ Uploaded(c)
        /\ snap[c] # {}
        /\ Cardinality(BodyTuples(c) \ Tuples(snap[c])) = 2

\* C19: the table a request leaves with rows B is the table that two
\* requests leave, one after the other, with any split of B into two
\* non-empty batches: same rows, same flags.
C19_SplitSameResult ==
    \A c \in Slots :
        Uploaded(c) =>
            \A k \in 1..(Len(body[c].data) - 1) :
                \A T1 \in UploadOutcomes(snap[c], SubSeq(body[c].data, 1, k)) :
                    \A T2 \in UploadOutcomes(T1, SubSeq(body[c].data, k + 1, Len(body[c].data))) :
                        T2 = orders

\* C20: the flags are a function of the stored rows: uploading again a batch
\* whose records are all stored, which stores nothing, leaves every flag as
\* it was.
C20_Deterministic ==
    \A c \in Slots :
        (Uploaded(c) /\ resub[c]) => orders = snap[c]

\* What the timestamp column of an exported row is to show.
Rendering(ts) ==
    IF ts \in {TsNull, TsUndefined} THEN Text("")
    ELSE IF ts.kind = "Date" /\ ts.time # <<>> THEN FormatDate(ts.time)
    ELSE Text("Invalid Date")

Selected == SelectFiscalYear(orders_view, fiscalYear)
Answer == xres[Len(xres)]

\* C15: when neither the query nor the serialisation fails, an export whose
\* rows all have a valid timestamp is answered 200, and every 200 carries,
\* for each selected row, the timestamp rendered as '' (absent), as
\* 'Invalid Date' (no valid instant) or as YYYYMMDDHH:MM:SS.
C15_TimestampRendering ==
    (xpc = "done" /\ xerr \notin {"query", "stringify"} /\ Selected # <<>>)
    => /\ (\A i \in 1..Len(Selected) :
              Selected[i].timestamp.kind = "Date" /\ Selected[i].timestamp.time # <<>>)
          => Answer.status = 200
       /\ Answer.status = 200
          => /\ Len(Answer.body) = Len(Selected)
             /\ \A i \in 1..Len(Selected) :
                   Answer.body[i].timestamp = Rendering(Selected[i].timestamp)

\* C16: one response is sent; with no selected row and a query that did not
\* fail it is 404 without CSV; with selected rows and no error it is 200
\* with CSV; after any error it is 500; 404 is sent only for an empty
\* selection without error.
C16_NotFoundOnlyWhenEmpty ==
    xpc = "done"
    => /\ Len(xres) = 1
       /\ (Selected = <<>> /\ xerr # "query")
          => (Answer.status = 404 /\ Answer.type # "text/csv" /\ Answer.body = <<>>)
       /\ (Selected # <<>> /\ xerr = "none")
          => (Answer.status = 200 /\ Answer.type = "text/csv" /\ Len(Answer.body) = Len(Selected))
       /\ xerr # "none" => Answer.status = 500
       /\ Answer.status = 404 => (Selected = <<>> /\ xerr = "none")

\* The view has rows, none of the computed fiscal year, and 404 was sent.
C16_Witness ==
    /\ xpc = "done"
    /\ orders_view # <<>>
    /\ Selected = <<>>
    /\ Answer.status = 404

\* C17: the label the query was sent with is built from the clock's year Y
\* when its calendar month is 4 or later and from Y - 1 when it is 3 or
\* earlier, so that months 1 to 3 of Y give the label of months 4 to 12 of
\* Y - 1.
C17_FiscalYearLabel ==
    xpc # "idle"
    => /\ today.month \in 4..12 => fiscalYear = Label(today.year)
       /\ today.month \in 1..3 => fiscalYear = Label(today.year - 1)
       /\ \A d \in Days :
             (/\ d.year = today.year - 1
              /\ d.month \in 4..12
              /\ today.month \in 1..3) => FiscalYear(d) = fiscalYear

\* An export in March was answered with the rows labelled with the year before.
C17_Witness ==
    /\ xpc = "done"
    /\ today.month = 3
    /\ Answer.status = 200
    /\ \A i \in 1..Len(Answer.body) : Answer.body[i].fiscal_year = Label(today.year - 1)

\* The flags the reclassification gives on the table as it stands.
FlagsMatchPolicy == orders \in UploadOutcomes(orders, <<>>)

\* C13: with two uploads in progress at the same time, the table never
\* holds two rows with the same tuple, and when both have ended a tuple
\* that a committed upload carried is stored exactly once.
C13_ConcurrentDedup ==
    /\ \A r, q \in orders : r.tuple = q.tuple => r = q
    /\ (\A c \in Slots : Done(c))
       => \A c \in Slots :
             Uploaded(c)
             => \A t \in BodyTuples(c) : Cardinality({ r \in orders : r.tuple = t }) = 1

\* Both uploads arrived on the empty table with a record in common, and
\* both committed.
C13_Witness ==
    /\ \A c \in Slots : Uploaded(c) /\ snap[c] = {}
    /\ \E c, d \in Slots : c # d /\ BodyTuples(c) \cap BodyTuples(d) # {}

\* C14: flags that differ from the policy on the final table, after both
\* uploads have committed, come from two uploads that overlapped: neither
\* arrived after the other had committed.
C14_MismatchOnlyFromOverlap ==
    ((\A c \in Slots : Uploaded(c)) /\ ~FlagsMatchPolicy)
    => \A c \in Slots : snap[c] = {}

\* The race: both uploads have committed, and a plain row is countable
\* although a cancelled row of its order_id is stored.
C14_Witness ==
    /\ \A c \in Slots : Uploaded(c)
    /\ ~FlagsMatchPolicy
    /\ \E r \in orders :
          /\ r.tuple.order_status = Plain
          /\ r.is_countable = "TRUE"
          /\ HasCancelled(r.tuple.order_id)

====
